---------------------------- MODULE Spec2Model ----------------------------
(***************************************************************************)
(* State-machine model of the image-overlay PDF generator                  *)
(* (src/src/App.tsx, the React component App, and its export pipeline      *)
(* downloadPDF / pickOrientation / drawRotated).                           *)
(*                                                                         *)
(* Conventions                                                             *)
(*   - JavaScript arrays are TLA+ sequences, so positions are 1-based:     *)
(*     the code's index k is position k+1 here, and the code's test        *)
(*     `i > 0` is `i > 1`.  A null index (cropIndex, uploadingIndex) is    *)
(*     NoIndex.                                                            *)
(*   - JavaScript numbers are modelled as exact rationals <<num, den>>     *)
(*     in lowest terms; the layout arithmetic is carried out exactly.      *)
(*   - A null / absent URL is the record Null; a URL is a record that      *)
(*     says what it names (a blob, or a data URL with its encoding and     *)
(*     the pixel size a decode of it yields).                              *)
(***************************************************************************)
EXTENDS Integers, Sequences, FiniteSets, TLC

(***************************************************************************)
(* Program constants                                                       *)
(***************************************************************************)
\* const PANORAMA_AR = 2.6, as the fraction 26/10
PANORAMA_AR == <<13, 5>>
\* const PANORAMA_INSET = 0.04
PANORAMA_INSET == <<1, 25>>
\* const NORMAL_INSET = 0.10
NORMAL_INSET == <<1, 10>>
\* const M = 8 (page margin, mm)
M == 8
\* jsPDF default page format a4 in the default unit mm: 210 x 297
A4Short == 210
A4Long == 297

(***************************************************************************)
(* Bounds of the model                                                     *)
(***************************************************************************)
\* longest entries list the Add button is allowed to build
MaxEntries == 2
\* number of URL.createObjectURL calls in one behaviour
MaxBlobs == 2
\* number of downloadPDF activations that can be tracked at once
MaxRuns == 2
\* number of POST /upload requests the server is given in one behaviour
MaxRequests == 2

NoIndex == 0
Null == [kind |-> "null"]

(***************************************************************************)
(* Exact rational arithmetic standing for JavaScript number arithmetic.    *)
(* Each operation binds its operands once (a \in {x}), so that an operand  *)
(* expression is evaluated a single time however often it is used.         *)
(***************************************************************************)
Abs(x) == IF x < 0 THEN -x ELSE x

RECURSIVE GCD(_, _)
GCD(a, b) == IF b = 0 THEN a ELSE GCD(b, a % b)

LCM(a, b) == (a \div GCD(a, b)) * b

Rat(n, d) ==
  CHOOSE q \in {<<((IF b < 0 THEN -1 ELSE 1) * a) \div g,
                  ((IF b < 0 THEN -1 ELSE 1) * b) \div g>> :
                  g \in {GCD(Abs(a), Abs(b)) : a \in {n}, b \in {d}},
                  a \in {n}, b \in {d}} : TRUE

RInt(n) == <<n, 1>>

RAdd(x, y) ==
  CHOOSE q \in {Rat(a[1] * (l \div a[2]) + b[1] * (l \div b[2]), l) :
                  l \in {LCM(a[2], b[2]) : a \in {x}, b \in {y}},
                  a \in {x}, b \in {y}} : TRUE

RNeg(x) == CHOOSE q \in {<<-a[1], a[2]>> : a \in {x}} : TRUE

RSub(x, y) == RAdd(x, RNeg(y))

RMul(x, y) ==
  CHOOSE q \in {Rat((a[1] \div GCD(Abs(a[1]), b[2])) * (b[1] \div GCD(Abs(b[1]), a[2])),
                    (a[2] \div GCD(Abs(b[1]), a[2])) * (b[2] \div GCD(Abs(a[1]), b[2]))) :
                  a \in {x}, b \in {y}} : TRUE

RInv(x) ==
  CHOOSE q \in {IF a[1] < 0 THEN <<-a[2], -a[1]>> ELSE <<a[2], a[1]>> :
                  a \in {x}} : TRUE

RDiv(x, y) == RMul(x, RInv(y))

RLe(x, y) ==
  \E a \in {x}, b \in {y} :
    \E l \in {LCM(a[2], b[2])} : a[1] * (l \div a[2]) <= b[1] * (l \div b[2])

RLt(x, y) == ~RLe(y, x)

(***************************************************************************)
(* URLs and entries                                                        *)
(***************************************************************************)
\* a data URL: its encoding ("jpeg" / "png") and the size its decode yields
DataUrl(enc, w, h) == [kind |-> "data", enc |-> enc, w |-> w, h |-> h]

\* URL.createObjectURL(file): the b-th blob URL handed out
BlobUrl(b) == [kind |-> "blob", id |-> b]

\* orig && orig.startsWith("blob:")
IsBlob(u) == u.kind = "blob"

\* faulty variant: no source recognised as PNG
IsPngDataNever(u) == FALSE

\* src.startsWith("data:image/png")
IsPngData(u) == u.kind = "data" /\ u.enc = "png"

\* const JPEG_QUALITY = 0.9
JPEG_QUALITY == <<9, 10>>

\* c.toDataURL("image/png") takes no quality: PNG is lossless
NoQuality == <<1, 1>>

\* the entry literal of useState's initial list and of addEntry
NewEntry ==
  [title |-> "", size |-> "", image |-> Null, originalImage |-> Null,
   orientation |-> "auto", scale |-> 100, offsetX |-> 0, offsetY |-> 0,
   rotation |-> 0]


(***************************************************************************)
(* pickOrientation (the part after a successful decode, or with no         *)
(* decode at all).  "unset" stands for an absent orientation field.        *)
(***************************************************************************)
\* the early returns of pickOrientation: no image load is awaited
PickNeedsDecode(e) ==
  /\ e.orientation \in {"unset", "auto"}
  /\ e.image.kind # "null"

\* faulty variant: the threshold compared with > in place of >=
PickOrientationStrict(e) ==
  IF e.orientation # "unset" /\ e.orientation # "auto" THEN e.orientation
  ELSE IF e.image.kind = "null" THEN "portrait"
  ELSE LET ar == Rat(e.image.w, e.image.h)
       IN  IF RLt(PANORAMA_AR, ar) THEN "landscape" ELSE "portrait"

\* faulty variant: every source wider than tall counted as a panorama
PickOrientationWide(e) ==
  IF e.orientation # "unset" /\ e.orientation # "auto" THEN e.orientation
  ELSE IF e.image.kind = "null" THEN "portrait"
  ELSE LET ar == Rat(e.image.w, e.image.h)
       IN  IF RLt(RInt(1), ar) THEN "landscape" ELSE "portrait"

\* faulty variant: the stored orientation handed on unresolved
PickOrientationRaw(e) ==
  IF e.orientation = "unset" THEN "portrait" ELSE e.orientation

PickOrientation(e) ==
  IF e.orientation # "unset" /\ e.orientation # "auto" THEN e.orientation
  ELSE IF e.image.kind = "null" THEN "portrait"
  ELSE LET ar == Rat(e.image.w, e.image.h)
       IN  IF RLe(PANORAMA_AR, ar) THEN "landscape" ELSE "portrait"

(***************************************************************************)
(* drawRotated (after a successful decode of src)                          *)
(***************************************************************************)
\* faulty variant: the sum left unnormalised
normNone(d) == d

\* const norm = (d) => ((d % 360) + 360) % 360
norm(d) == ((d % 360) + 360) % 360

\* faulty variant: no rotation counted as a quarter turn
swapNever(r) == FALSE

\* const swap = (r) => r === 90 || r === 270
swap(r) == r = 90 \/ r = 270

\* faulty variant: the effective ratio ignores the 90 / 270 swap
DrawRotatedNoSwap(src, userRot, pageOrientation) ==
  LET baseW == src.w
      baseH == src.h
      baseAR == Rat(baseW, baseH)
      effAR == baseAR
      rot1 == IF pageOrientation = "landscape" /\ RLt(effAR, RInt(1))
              THEN norm(userRot + 90) ELSE userRot
      rot == IF pageOrientation = "portrait" /\ RLt(RInt(1), effAR)
             THEN norm(rot1 + 90) ELSE rot1
      outW == IF swap(rot) THEN baseH ELSE baseW
      outH == IF swap(rot) THEN baseW ELSE baseH
  IN  [url |-> DataUrl(IF IsPngData(src) THEN "png" ELSE "jpeg", outW, outH),
       quality |-> IF IsPngData(src) THEN NoQuality ELSE JPEG_QUALITY,
       w |-> outW, h |-> outH, ar |-> Rat(outW, outH), rot |-> rot]

DrawRotated(src, userRot, pageOrientation) ==
  LET baseW == src.w
      baseH == src.h
      baseAR == Rat(baseW, baseH)
      effAR == IF swap(userRot) THEN RDiv(RInt(1), baseAR) ELSE baseAR
      rot1 == IF pageOrientation = "landscape" /\ RLt(effAR, RInt(1))
              THEN norm(userRot + 90) ELSE userRot
      rot == IF pageOrientation = "portrait" /\ RLt(RInt(1), effAR)
             THEN norm(rot1 + 90) ELSE rot1
      outW == IF swap(rot) THEN baseH ELSE baseW
      outH == IF swap(rot) THEN baseW ELSE baseH
  IN  [url |-> DataUrl(IF IsPngData(src) THEN "png" ELSE "jpeg", outW, outH),
       quality |-> IF IsPngData(src) THEN NoQuality ELSE JPEG_QUALITY,
       w |-> outW, h |-> outH, ar |-> Rat(outW, outH), rot |-> rot]

(***************************************************************************)
(* Header cursor of one page (downloadPDF, "let yPos = M + 6" onward):     *)
(* the texts drawn, each with the baseline of its first line, the number   *)
(* of lines pdf.text breaks it into at maxWidth and the baseline of its    *)
(* last line, and the cursor after them.                                   *)
(***************************************************************************)
\* stands for a text too wide for maxWidth on either page size: pdf.text
\* breaks it into WrappedLines(LongText) lines
LongText == "T T T T T"

\* lines pdf.text(text, x, y, { maxWidth }) draws for a non-empty text
WrappedLines(text) == IF text = LongText THEN 5 ELSE 1

\* distance in mm between the baselines of a wrapped text: font size in
\* points times the line height factor 1.15, 72 points to 25.4 mm
LineHeight(fontSize) == Rat(fontSize * 115 * 254, 100 * 720)

HeaderLine(field, text, y, fontSize) ==
  CHOOSE line \in
    {[field |-> field, y |-> y, n |-> n,
      last |-> RAdd(RInt(y), RMul(RInt(n - 1), LineHeight(fontSize)))] :
       n \in {WrappedLines(text)}} : TRUE

Header(jobNumber, entry) ==
  LET y0 == M + 6
      l1 == IF jobNumber # ""
            THEN <<HeaderLine("job", jobNumber, y0, 16)>> ELSE <<>>
      y1 == IF jobNumber # "" THEN y0 + 12 ELSE y0
      l2 == IF entry.title # ""
            THEN <<HeaderLine("title", entry.title, y1, 14)>> ELSE <<>>
      y2 == IF entry.title # "" THEN y1 + 10 ELSE y1
      l3 == IF entry.size # ""
            THEN <<HeaderLine("size", entry.size, y2, 12)>> ELSE <<>>
      y3 == IF entry.size # "" THEN y2 + 10 ELSE y2
  IN  [lines |-> l1 \o l2 \o l3, yPos |-> y3]

(***************************************************************************)
(* Layout step of downloadPDF ("content box" to the x, y of addImage),     *)
(* section by section.  A section binds the values it uses more than once  *)
(* (v \in {expression}), as the code's const / let does.                   *)
(***************************************************************************)
\* faulty variant: the operands of the height exchanged
ContentBoxExchanged(yPos, pageW, pageH) ==
  [top |-> yPos + 6, left |-> M, rawW |-> pageW - M * 2,
   rawH |-> (yPos + 6) + M - pageH]

\* const top = yPos + 6; left = M; rawW = pageW - M * 2; rawH = pageH - top - M
ContentBox(yPos, pageW, pageH) ==
  [top |-> yPos + 6, left |-> M, rawW |-> pageW - M * 2,
   rawH |-> pageH - (yPos + 6) - M]

\* faulty variant: the normal inset for every image
InsetForNormal(imgAR) == NORMAL_INSET

\* const inset = imgAR >= PAN_AR ? PANORAMA_INSET : NORMAL_INSET
InsetFor(imgAR) ==
  IF RLe(PANORAMA_AR, imgAR) THEN PANORAMA_INSET ELSE NORMAL_INSET

\* boxW, boxH, boxLeft, boxTop
InsetBox(content, inset) ==
  CHOOSE box \in
    {[inset |-> i,
      boxW |-> RMul(RInt(c.rawW), keep),
      boxH |-> RMul(RInt(c.rawH), keep),
      boxLeft |-> RAdd(RInt(c.left), RMul(RInt(c.rawW), i)),
      boxTop |-> RAdd(RInt(c.top), RMul(RInt(c.rawH), i))] :
       c \in {content}, i \in {inset},
       keep \in {RSub(RInt(1), RMul(inset, RInt(2)))}} : TRUE

\* faulty variant: fits the width only, without the drawH > boxH branch
ContainFitWidthOnly(box, imgAR) ==
  [w |-> box.boxW, h |-> RDiv(box.boxW, imgAR)]

\* contain fit: let drawW = boxW; let drawH = drawW / imgAR;
\* if (drawH > boxH) { drawH = boxH; drawW = drawH * imgAR; }
ContainFit(box, imgAR) ==
  CHOOSE fit \in
    {IF RLt(b.boxH, drawH) THEN [w |-> RMul(b.boxH, imgAR), h |-> b.boxH]
     ELSE [w |-> b.boxW, h |-> drawH] :
       b \in {box}, drawH \in {RDiv(box.boxW, imgAR)}} : TRUE

\* Math.min(100, Math.max(50, entry.scale ?? 100))
ClampScale(s) == IF s < 50 THEN 50 ELSE IF s > 100 THEN 100 ELSE s

\* faulty variant: the offset applied to the whole slack
OriginFullSlack(boxStart, boxLen, drawLen, offset) ==
  CHOOSE at \in
    {RAdd(RAdd(boxStart, RDiv(slack, RInt(2))),
          RMul(Rat(offset, 100), slack)) :
       slack \in {RSub(boxLen, drawLen)}} : TRUE

\* boxStart + (boxLen - drawLen) / 2 + (offset / 100) * (slack / 2), with
\* slack = boxLen - drawLen: the x (and the y) handed to addImage
Origin(boxStart, boxLen, drawLen, offset) ==
  CHOOSE at \in
    {RAdd(RAdd(boxStart, RDiv(slack, RInt(2))),
          RMul(Rat(offset, 100), RDiv(slack, RInt(2)))) :
       slack \in {RSub(boxLen, drawLen)}} : TRUE

\* scale and offsets: drawW *= scale; drawH *= scale; slack; offX, offY; x, y
Placement(content, box, fit, entry) ==
  CHOOSE lay \in
    {[top |-> c.top, left |-> c.left, rawW |-> c.rawW, rawH |-> c.rawH,
      inset |-> b.inset, boxW |-> b.boxW, boxH |-> b.boxH,
      boxLeft |-> b.boxLeft, boxTop |-> b.boxTop,
      scale |-> used, offsetX |-> e.offsetX, offsetY |-> e.offsetY,
      x |-> Origin(b.boxLeft, b.boxW, drawW, e.offsetX),
      y |-> Origin(b.boxTop, b.boxH, drawH, e.offsetY),
      drawW |-> drawW, drawH |-> drawH] :
       c \in {content}, b \in {box}, e \in {entry},
       used \in {ClampScale(entry.scale)},
       drawW \in {RMul(fit.w, Rat(ClampScale(entry.scale), 100))},
       drawH \in {RMul(fit.h, Rat(ClampScale(entry.scale), 100))}} : TRUE

Layout(entry, imgAR, yPos, pageW, pageH) ==
  CHOOSE lay \in
    UNION {{Placement(c, box, ContainFit(box, imgAR), entry) :
              box \in {InsetBox(c, InsetFor(imgAR))}} :
           c \in {ContentBox(yPos, pageW, pageH)}} : TRUE

(***************************************************************************)
(* The document object (jsPDF) as downloadPDF uses it.  A page records its *)
(* physical orientation, the entry drawn on it (NoIndex: none), the header *)
(* lines and the placed image (Null: none).                                *)
(***************************************************************************)
BlankPage(ori) ==
  [ori |-> ori, entry |-> NoIndex, hdr |-> <<>>, img |-> Null]

\* pdf.internal.pageSize.getWidth() / getHeight() of a page
PageW(ori) == IF ori = "landscape" THEN A4Long ELSE A4Short

PageH(ori) == IF ori = "landscape" THEN A4Short ELSE A4Long

NoPdf == [orientation |-> "none", pages |-> <<>>]

\* new jsPDF({ orientation: firstOri, compress: true }): the constructor
\* opens the document with its first page
NewPdf(firstOri) == [orientation |-> firstOri, pages |-> <<BlankPage(firstOri)>>]

\* jsPDF addPage(format, orientation): a page in the orientation given as
\* the SECOND argument, else in the document's current orientation; a
\* first argument that names no page format leaves the format (a4) as is.
AddPage(pdf, parmFormat, parmOrientation) ==
  LET orientation == IF parmOrientation # "undefined" THEN parmOrientation
                     ELSE pdf.orientation
  IN  [orientation |-> orientation,
       pages |-> Append(pdf.pages, BlankPage(orientation))]

\* the page the document is drawing on (the last one added)
SetLastPage(pdf, page) ==
  [pdf EXCEPT !.pages = [pdf.pages EXCEPT ![Len(pdf.pages)] = page]]

LastPage(pdf) == pdf.pages[Len(pdf.pages)]

(***************************************************************************)
(* One activation of downloadPDF over the entries and job number of the    *)
(* render it was started from (its closure).  pc:                          *)
(*   "idle"   never started     "pick"   awaiting the image load of        *)
(*   "done"   returned                   pickOrientation(entries[i])       *)
(*                              "rotate" awaiting the image load of        *)
(*                                       drawRotated for entries[i]        *)
(***************************************************************************)
IdleRun ==
  [pc |-> "idle", entries |-> <<>>, jobNumber |-> "", orientations |-> <<>>,
   i |-> 1, pdf |-> NoPdf, saved |-> FALSE, fileName |-> "",
   alerted |-> FALSE, failedAt |-> NoIndex]

\* pdf.save(`${jobNumber || "output"}.pdf`), then the finally block
Save(r) ==
  [r EXCEPT !.pc = "done", !.saved = TRUE,
            !.fileName = IF r.jobNumber # "" THEN r.jobNumber ELSE "output"]

\* loop body up to the await of drawRotated: addPage for every entry but
\* the first of the array, then the header
StagePage(r, i) ==
  LET entry == r.entries[i]
      pdf1 == IF i > 1 THEN AddPage(r.pdf, r.orientations[i], "undefined")
              ELSE r.pdf
      page == [LastPage(pdf1) EXCEPT !.entry = i,
                                     !.hdr = Header(r.jobNumber, entry).lines]
  IN  [r EXCEPT !.pc = "rotate", !.i = i, !.pdf = SetLastPage(pdf1, page)]

\* for (let i ...) { if (!entry.image) continue; ... await drawRotated }
\* from position i to the next await, or to pdf.save
RECURSIVE LoopFrom(_, _)
LoopFrom(r, i) ==
  IF i > Len(r.entries) THEN Save(r)
  ELSE IF r.entries[i].image.kind = "null" THEN LoopFrom(r, i + 1)
  ELSE StagePage(r, i)

\* const firstOri = orientations[0] || "portrait"; new jsPDF(...)
InitPdf(r) ==
  LET firstOri == IF Len(r.orientations) > 0 THEN r.orientations[1]
                  ELSE "portrait"
  IN  LoopFrom([r EXCEPT !.pdf = NewPdf(firstOri)], 1)

\* "pre-pick orientations" loop from position i to the next image load
RECURSIVE PickFrom(_, _)
PickFrom(r, i) ==
  IF i > Len(r.entries) THEN InitPdf(r)
  ELSE IF PickNeedsDecode(r.entries[i]) THEN [r EXCEPT !.pc = "pick", !.i = i]
  ELSE PickFrom([r EXCEPT !.orientations =
                   Append(r.orientations, PickOrientation(r.entries[i]))],
                i + 1)

\* const isJPEG = rotated.url.startsWith("data:image/jpeg");
\* the format argument of pdf.addImage
FormatTag(url) ==
  IF url.kind = "data" /\ url.enc = "jpeg" THEN "JPEG" ELSE "PNG"

\* faulty variant: the loop moves on without waiting for the placement
PlaceImageSkipped(r) == r

\* drawRotated has resolved for entries[i]: layout and pdf.addImage
PlaceImage(r) ==
  CHOOSE out \in
    {[r EXCEPT !.pdf = SetLastPage(r.pdf,
        [page EXCEPT !.img =
           [kind |-> "image", url |-> rotated.url,
            format |-> FormatTag(rotated.url), quality |-> rotated.quality,
            pageOrientation |-> r.orientations[r.i],
            userRot |-> entry.rotation, rot |-> rotated.rot,
            w |-> rotated.w, h |-> rotated.h, ar |-> rotated.ar,
            lay |-> Layout(entry, rotated.ar,
                           Header(r.jobNumber, entry).yPos,
                           PageW(page.ori), PageH(page.ori))]])] :
       entry \in {r.entries[r.i]}, page \in {LastPage(r.pdf)},
       rotated \in {DrawRotated(r.entries[r.i].image,
                                r.entries[r.i].rotation,
                                r.orientations[r.i])}} : TRUE

(***************************************************************************)
(* State of the component App                                              *)
(***************************************************************************)
VARIABLES
  jobNumber,       \* useState<string>("")
  entries,         \* useState<Entry[]>([...])
  cropIndex,       \* useState<number | null>(null)
  isGenerating,    \* useState(false)
  isUploading,     \* useState(false)
  uploadingIndex,  \* useState<number | null>(null)
  blobs,           \* how many blob URLs URL.createObjectURL has handed out
  revoked,         \* per blob URL, how often URL.revokeObjectURL was called
  run,             \* the activations of downloadPDF
  upload,          \* the TIFF branch of handleImageUpload awaiting fetch
  request          \* server.js: the POST /upload requests, by connection

vars == <<jobNumber, entries, cropIndex, isGenerating, isUploading,
          uploadingIndex, blobs, revoked, run, upload, request>>

uiVars == <<jobNumber, entries, cropIndex, isUploading, uploadingIndex,
            blobs, revoked, upload, request>>

(***************************************************************************)
(* server.js: the route POST /upload.  Two handlers are registered for it; *)
(* Express runs them in registration order and the first never calls       *)
(* next(), so every request is answered by the first (handler 1).          *)
(***************************************************************************)
\* `let meta = {}`: no pages, no width, no height
NoMeta == [pages |-> 0, width |-> 0, height |-> 0]

NoPipe == [page0 |-> "undefined", flatten |-> FALSE, resize |-> FALSE]

IdleRequest ==
  [pc |-> "idle", file |-> FALSE, bg |-> "none", meta |-> NoMeta,
   pipe |-> NoPipe, tried |-> <<>>, responses |-> <<>>]

\* const wantTransparent = (req.query.bg === "transparent")
WantTransparent(q) == q.bg = "transparent"

\* res.status(..).json(..) / res.json(..), and the handler returns
Respond(q, response) ==
  [q EXCEPT !.pc = "done", !.responses = Append(@, response)]

\* the sharp pipeline up to `await pipe.png(...).toBuffer()`
StartSharp(q) ==
  [q EXCEPT
     !.pc = "sharp",
     !.tried = Append(@, "sharp"),
     !.pipe = [page0 |-> IF q.meta.pages > 0 THEN "0" ELSE "undefined",
               flatten |-> ~WantTransparent(q),
               resize |-> q.meta.width * q.meta.height > 50000000]]

\* convertViaMagick(input, { transparent: wantTransparent }) up to its await
StartMagick(q) ==
  [q EXCEPT !.pc = "magick", !.tried = Append(@, "magick")]

(***************************************************************************)
(* Inputs of the model                                                     *)
(***************************************************************************)
\* what the form controls of an entry card can send to updateEntry
FormInputs ==
  {<<"title", "T">>, <<"title", "">>,
   <<"orientation", "landscape">>, <<"orientation", "auto">>}

JobNumbers == {"", "J"}

\* pixel sizes of the canvas the cropper returns on Apply: a panorama and
\* a portrait shape
CropSizes == {<<3, 1>>, <<2, 3>>}

\* what the awaited fetch / res.json() of a TIFF upload can come to
UploadOutcomes == {"base64", "nobase64", "notok", "rejected"}

IdleUpload == [pc |-> "idle", index |-> NoIndex, alerted |-> FALSE]

\* values of the bg query parameter: the two documented ones and none
BgValues == {"transparent", "white", "none"}

\* what sharp(...).metadata() can come to: rejected (meta stays {}), a
\* single small frame, several frames of more than 50,000,000 pixels
MetaOutcomes ==
  {NoMeta, [pages |-> 1, width |-> 1000, height |-> 1000],
   [pages |-> 2, width |-> 10000, height |-> 10000]}

Init ==
  /\ jobNumber = ""
  /\ entries = <<NewEntry>>
  /\ cropIndex = NoIndex
  /\ isGenerating = FALSE
  /\ isUploading = FALSE
  /\ uploadingIndex = NoIndex
  /\ blobs = 0
  /\ revoked = [b \in 1..MaxBlobs |-> 0]
  /\ run = [k \in 1..MaxRuns |-> IdleRun]
  /\ upload = IdleUpload
  /\ request = [c \in 1..MaxRequests |-> IdleRequest]

(***************************************************************************)
(* Form handlers                                                           *)
(***************************************************************************)
\* faulty variant: the field written to every entry
UpdateEntryAll(prev, index, field, value) ==
  [i \in 1..Len(prev) |-> [prev[i] EXCEPT ![field] = value]]

\* prev.map((e, i) => (i === index ? { ...e, [field]: value } : e))
UpdateEntry(prev, index, field, value) ==
  [i \in 1..Len(prev) |->
     IF i = index THEN [prev[i] EXCEPT ![field] = value] ELSE prev[i]]

\* URL.revokeObjectURL(orig) under `orig && orig.startsWith("blob:")`
Revoke(rv, orig) ==
  IF IsBlob(orig) THEN [rv EXCEPT ![orig.id] = @ + 1] ELSE rv

\* onChange={(e) => setJobNumber(e.target.value)}
SetJobNumber(v) ==
  /\ jobNumber' = v
  /\ UNCHANGED <<entries, cropIndex, isGenerating, isUploading,
                 uploadingIndex, blobs, revoked, run, upload,
                 request>>

\* the onChange handlers of an entry card's inputs and selects
EditField(index, field, value) ==
  /\ index \in 1..Len(entries)
  /\ entries' = UpdateEntry(entries, index, field, value)
  /\ UNCHANGED <<jobNumber, cropIndex, isGenerating, isUploading,
                 uploadingIndex, blobs, revoked, run, upload,
                 request>>

AddEntry ==
  /\ Len(entries) < MaxEntries
  /\ entries' = Append(entries, NewEntry)
  /\ UNCHANGED <<jobNumber, cropIndex, isGenerating, isUploading,
                 uploadingIndex, blobs, revoked, run, upload,
                 request>>

DeleteEntry(index) ==
  /\ index \in 1..Len(entries)
  /\ revoked' = Revoke(revoked, entries[index].originalImage)
  /\ entries' = SubSeq(entries, 1, index - 1)
                  \o SubSeq(entries, index + 1, Len(entries))
  /\ UNCHANGED <<jobNumber, cropIndex, isGenerating, isUploading,
                 uploadingIndex, blobs, run, upload,
                 request>>

(***************************************************************************)
(* handleImageUpload.  The file input is disabled while isUploading.       *)
(***************************************************************************)
\* faulty variant: the object URL stored as the finished image
SelectFileAsImage(index) ==
  /\ index \in 1..Len(entries)
  /\ ~isUploading
  /\ blobs < MaxBlobs
  /\ blobs' = blobs + 1
  /\ entries' = UpdateEntry(entries, index, "image", BlobUrl(blobs + 1))
  /\ cropIndex' = index
  /\ UNCHANGED <<jobNumber, isGenerating, isUploading, uploadingIndex,
                 revoked, run, upload,
                 request>>

\* non-TIFF file: object URL, straight into the crop dialog
SelectFile(index) ==
  /\ index \in 1..Len(entries)
  /\ ~isUploading
  /\ blobs < MaxBlobs
  /\ blobs' = blobs + 1
  /\ entries' = UpdateEntry(entries, index, "originalImage", BlobUrl(blobs + 1))
  /\ cropIndex' = index
  /\ UNCHANGED <<jobNumber, isGenerating, isUploading, uploadingIndex,
                 revoked, run, upload,
                 request>>

\* TIFF file: up to the await of fetch
SelectTiff(index) ==
  /\ index \in 1..Len(entries)
  /\ ~isUploading
  /\ upload.pc = "idle"
  /\ isUploading' = TRUE
  /\ uploadingIndex' = index
  /\ upload' = [pc |-> "fetch", index |-> index, alerted |-> FALSE]
  /\ UNCHANGED <<jobNumber, entries, cropIndex, isGenerating, blobs,
                 revoked, run,
                 request>>

\* faulty variant: the payload stored without the `if (data.base64)` test
UploadSettledUnchecked(outcome) ==
  /\ upload.pc = "fetch"
  /\ IF outcome \in {"base64", "nobase64"}
     THEN /\ entries' = UpdateEntry(entries, upload.index, "originalImage",
                                    DataUrl("png", 0, 0))
          /\ cropIndex' = upload.index
     ELSE UNCHANGED <<entries, cropIndex>>
  /\ upload' = [pc |-> "idle", index |-> upload.index,
                alerted |-> outcome \notin {"base64", "nobase64"}]
  /\ isUploading' = FALSE
  /\ uploadingIndex' = NoIndex
  /\ UNCHANGED <<jobNumber, isGenerating, blobs, revoked, run,
                 request>>

\* the fetch has settled: the rest of the try block, catch, finally
UploadSettled(outcome) ==
  /\ upload.pc = "fetch"
  /\ IF outcome = "base64"
     THEN /\ entries' = UpdateEntry(entries, upload.index, "originalImage",
                                    DataUrl("png", 0, 0))
          /\ cropIndex' = upload.index
     ELSE UNCHANGED <<entries, cropIndex>>
  /\ upload' = [pc |-> "idle", index |-> upload.index,
                alerted |-> outcome # "base64"]
  /\ isUploading' = FALSE
  /\ uploadingIndex' = NoIndex
  /\ UNCHANGED <<jobNumber, isGenerating, blobs, revoked, run,
                 request>>

(***************************************************************************)
(* Crop dialog                                                             *)
(***************************************************************************)
\* {cropIndex !== null && entries[cropIndex]?.originalImage && ( ... )}:
\* the dialog, and with it cropperRef.current, exists
CropOpen ==
  /\ cropIndex # NoIndex
  /\ cropIndex <= Len(entries)
  /\ entries[cropIndex].originalImage.kind # "null"

\* faulty variant: the cropped canvas encoded as PNG
ApplyCropAsPng ==
  /\ CropOpen
  /\ \E d \in CropSizes :
       entries' = UpdateEntry(
                    UpdateEntry(entries, cropIndex, "image",
                                DataUrl("png", d[1], d[2])),
                    cropIndex, "originalImage", Null)
  /\ revoked' = Revoke(revoked, entries[cropIndex].originalImage)
  /\ cropIndex' = NoIndex
  /\ UNCHANGED <<jobNumber, isGenerating, isUploading, uploadingIndex,
                 blobs, run, upload,
                 request>>

\* faulty variant: applyCrop without `originalImage: null`
ApplyCropKeepOrig ==
  /\ CropOpen
  /\ \E d \in CropSizes :
       entries' = UpdateEntry(entries, cropIndex, "image",
                              DataUrl("jpeg", d[1], d[2]))
  /\ revoked' = Revoke(revoked, entries[cropIndex].originalImage)
  /\ cropIndex' = NoIndex
  /\ UNCHANGED <<jobNumber, isGenerating, isUploading, uploadingIndex,
                 blobs, run, upload,
                 request>>

ApplyCrop ==
  /\ CropOpen
  /\ \E d \in CropSizes :
       entries' = UpdateEntry(
                    UpdateEntry(entries, cropIndex, "image",
                                DataUrl("jpeg", d[1], d[2])),
                    cropIndex, "originalImage", Null)
  /\ revoked' = Revoke(revoked, entries[cropIndex].originalImage)
  /\ cropIndex' = NoIndex
  /\ UNCHANGED <<jobNumber, isGenerating, isUploading, uploadingIndex,
                 blobs, run, upload,
                 request>>

\* Cancel: onClick={() => setCropIndex(null)}
CancelCrop ==
  /\ CropOpen
  /\ cropIndex' = NoIndex
  /\ UNCHANGED <<jobNumber, entries, isGenerating, isUploading,
                 uploadingIndex, blobs, revoked, run, upload,
                 request>>

(***************************************************************************)
(* downloadPDF                                                             *)
(***************************************************************************)
\* faulty variant: the button without disabled={isGenerating}
DownloadEnabledAlways ==
  /\ Len(entries) > 0
  /\ \E i \in 1..Len(entries) : entries[i].image.kind # "null"

\* the Download PDF button is rendered and not disabled
DownloadEnabled ==
  /\ Len(entries) > 0
  /\ \E i \in 1..Len(entries) : entries[i].image.kind # "null"
  /\ ~isGenerating

\* a record of run that holds no activation in progress, the lowest first
FreeSlot(k) ==
  /\ run[k].pc \in {"idle", "done"}
  /\ \A j \in 1..(k - 1) : run[j].pc \notin {"idle", "done"}

\* faulty variant: the flag reset at the end of try in place of finally
FinallyOnSuccess(r, flag) == IF r.pc = "done" /\ r.saved THEN FALSE ELSE flag

\* finally { setIsGenerating(false) }, reached when the activation returns
Finally(r, flag) == IF r.pc = "done" THEN FALSE ELSE flag

\* click on Download PDF: setIsGenerating(true) and on to the first await
\* of an image load
DownloadPDF(k) ==
  /\ DownloadEnabled
  /\ FreeSlot(k)
  /\ \E r \in {PickFrom([IdleRun EXCEPT !.entries = entries,
                                          !.jobNumber = jobNumber], 1)} :
       /\ run' = [run EXCEPT ![k] = r]
       /\ isGenerating' = Finally(r, TRUE)
  /\ UNCHANGED uiVars

\* the image load of pickOrientation(entries[i]) fires onload
PickLoaded(k) ==
  /\ run[k].pc = "pick"
  /\ \E o \in {PickOrientation(run[k].entries[run[k].i])} :
       \E r \in {PickFrom([run[k] EXCEPT !.orientations = Append(@, o)],
                          run[k].i + 1)} :
         /\ run' = [run EXCEPT ![k] = r]
         /\ isGenerating' = Finally(r, isGenerating)
  /\ UNCHANGED uiVars

\* faulty variant: a rejected load swallowed, the loops carry on
AbortSkip(r) ==
  IF r.pc = "pick"
  THEN PickFrom([r EXCEPT !.orientations = Append(r.orientations, "portrait"),
                          !.failedAt = r.i], r.i + 1)
  ELSE LoopFrom([r EXCEPT !.failedAt = r.i], r.i + 1)

\* a rejected image load: the catch block (console.error, alert), then the
\* finally block
Abort(r) ==
  [r EXCEPT !.pc = "done", !.alerted = TRUE, !.failedAt = r.i]

\* an awaited image load fires onerror (in pickOrientation or in
\* drawRotated): the promise rejects and control passes to catch
LoadError(k) ==
  /\ run[k].pc \in {"pick", "rotate"}
  /\ \E r \in {Abort(run[k])} :
       /\ run' = [run EXCEPT ![k] = r]
       /\ isGenerating' = Finally(r, isGenerating)
  /\ UNCHANGED uiVars

\* faulty variant: the job number read from the current render when the
\* activation resumes
RotateLoadedLive(k) ==
  /\ run[k].pc = "rotate"
  /\ \E placed \in {PlaceImage([run[k] EXCEPT !.jobNumber = jobNumber])} :
       \E r \in {LoopFrom(placed, run[k].i + 1)} :
         /\ run' = [run EXCEPT ![k] = r]
         /\ isGenerating' = Finally(r, isGenerating)
  /\ UNCHANGED uiVars

\* the image load of drawRotated fires onload: rotate, lay out, addImage,
\* and on to the next entry's await or to pdf.save
RotateLoaded(k) ==
  /\ run[k].pc = "rotate"
  /\ \E placed \in {PlaceImage(run[k])} :
       \E r \in {LoopFrom(placed, run[k].i + 1)} :
         /\ run' = [run EXCEPT ![k] = r]
         /\ isGenerating' = Finally(r, isGenerating)
  /\ UNCHANGED uiVars

Export ==
  \E k \in 1..MaxRuns :
    \/ DownloadPDF(k)
    \/ PickLoaded(k)
    \/ RotateLoaded(k)
    \/ LoadError(k)

(***************************************************************************)
(* Specifications.  downloadPDF reads the entries and the job number of    *)
(* the render it was started from and writes nothing the form handlers     *)
(* read but isGenerating, which only the Download button reads.  The       *)
(* model is therefore explored in two parts that share every definition:   *)
(*   Spec        the form, the crop dialog and the TIFF upload, from the   *)
(*               component's initial state;                                *)
(*   SpecExport  downloadPDF from each entries list of ExportLists (lists  *)
(*               the form can build), every image load free to succeed or  *)
(*               to fail.                                                  *)
(***************************************************************************)
Next ==
  \/ \E v \in JobNumbers : SetJobNumber(v)
  \/ \E i \in 1..MaxEntries, fv \in FormInputs : EditField(i, fv[1], fv[2])
  \/ AddEntry
  \/ \E i \in 1..MaxEntries : DeleteEntry(i)
  \/ \E i \in 1..MaxEntries : SelectFile(i)
  \/ \E i \in 1..MaxEntries : SelectTiff(i)
  \/ \E o \in UploadOutcomes : UploadSettled(o)
  \/ ApplyCrop
  \/ CancelCrop

Spec == Init /\ [][Next]_vars

\* values updateEntry can be handed for each field (its value is typed
\* `any`; the Entry type makes every field but title, size, image optional)
Orientations == {"unset", "auto", "portrait", "landscape"}

Rotations == {0, 90, 180, 270}

Scales == {40, 50, 75, 100, 120}

Offsets == {-150, -100, 0, 100, 150}

\* decoded pixel sizes: ratio 2.6 exactly, just below, above, square, tall
ImageSizes == {<<13, 5>>, <<5, 2>>, <<3, 1>>, <<1, 1>>, <<2, 3>>, <<1, 3>>}

\* single entries over the product of the values the pipeline computes with
ProbeEntries ==
  {[title |-> t, size |-> "", image |-> DataUrl("jpeg", d[1], d[2]),
    originalImage |-> Null, orientation |-> o, scale |-> s,
    offsetX |-> x, offsetY |-> y, rotation |-> r] :
     t \in {"", "T"}, d \in ImageSizes, o \in Orientations,
     s \in Scales, x \in Offsets, y \in Offsets, r \in Rotations}

\* single entries over the header fields
HeaderEntries ==
  {[NewEntry EXCEPT !.title = t, !.size = z, !.image = DataUrl("jpeg", d[1], d[2])] :
     t \in {"", "T", LongText}, z \in {"", "S", LongText},
     d \in {<<3, 1>>, <<2, 3>>}}

\* entries as the form builds them that differ in what decides the page
\* sequence: image present or not, its shape, the orientation choice
SeqEntries ==
  {[NewEntry EXCEPT !.image = u, !.orientation = o, !.rotation = r] :
     u \in {Null, DataUrl("jpeg", 3, 1), DataUrl("jpeg", 2, 3)},
     o \in {"auto", "portrait", "landscape"}, r \in {0, 90}}

RECURSIVE ListsOf(_, _)
ListsOf(S, n) ==
  IF n = 0 THEN {<<>>}
  ELSE LET shorter == ListsOf(S, n - 1)
       IN  shorter \cup {Append(l, e) : l \in {m \in shorter : Len(m) = n - 1},
                                        e \in S}

ExportLists ==
  {<<e>> : e \in ProbeEntries \cup HeaderEntries}
    \cup (ListsOf(SeqEntries, MaxEntries) \ {<<>>})

InitExport ==
  /\ jobNumber \in JobNumbers
  /\ entries \in ExportLists
  /\ cropIndex = NoIndex
  /\ isGenerating = FALSE
  /\ isUploading = FALSE
  /\ uploadingIndex = NoIndex
  /\ blobs = 0
  /\ revoked = [b \in 1..MaxBlobs |-> 0]
  /\ run = [k \in 1..MaxRuns |-> IdleRun]
  /\ upload = IdleUpload
  /\ request = [c \in 1..MaxRequests |-> IdleRequest]

NextExport == Export

SpecExport == InitExport /\ [][NextExport]_vars

(***************************************************************************)
(* SpecEncoding: downloadPDF applied to single entries whose image is a    *)
(* data URL of each encoding drawRotated tells apart (PNG, JPEG, and an    *)
(* encoding that is neither), over the sizes, rotations and orientations.  *)
(***************************************************************************)
Encodings == {"png", "jpeg", "webp"}

EncodingEntries ==
  {[NewEntry EXCEPT !.image = DataUrl(enc, d[1], d[2]),
                    !.orientation = o, !.rotation = r] :
     enc \in Encodings, d \in ImageSizes, o \in Orientations,
     r \in Rotations}

InitEncoding ==
  /\ jobNumber = ""
  /\ entries \in {<<e>> : e \in EncodingEntries}
  /\ cropIndex = NoIndex
  /\ isGenerating = FALSE
  /\ isUploading = FALSE
  /\ uploadingIndex = NoIndex
  /\ blobs = 0
  /\ revoked = [b \in 1..MaxBlobs |-> 0]
  /\ run = [k \in 1..MaxRuns |-> IdleRun]
  /\ upload = IdleUpload
  /\ request = [c \in 1..MaxRequests |-> IdleRequest]

NextEncoding == Export

SpecEncoding == InitEncoding /\ [][NextEncoding]_vars

(***************************************************************************)
(* FairSpec: the exports and TIFF uploads of short lists under the         *)
(* assumption that every awaited image load and every awaited fetch        *)
(* settles (fires onload or onerror; resolves or rejects).                 *)
(***************************************************************************)
LiveEntries ==
  {[NewEntry EXCEPT !.image = u] :
     u \in {Null, DataUrl("jpeg", 3, 1), DataUrl("jpeg", 2, 3)}}

InitLive ==
  /\ jobNumber = ""
  /\ entries \in (ListsOf(LiveEntries, MaxEntries) \ {<<>>})
  /\ cropIndex = NoIndex
  /\ isGenerating = FALSE
  /\ isUploading = FALSE
  /\ uploadingIndex = NoIndex
  /\ blobs = 0
  /\ revoked = [b \in 1..MaxBlobs |-> 0]
  /\ run = [k \in 1..MaxRuns |-> IdleRun]
  /\ upload = IdleUpload
  /\ request = [c \in 1..MaxRequests |-> IdleRequest]

LoadSettles ==
  \E k \in 1..MaxRuns : PickLoaded(k) \/ RotateLoaded(k) \/ LoadError(k)

FetchSettles == \E o \in UploadOutcomes : UploadSettled(o)

NextLive ==
  \/ Export
  \/ \E i \in 1..MaxEntries : SelectTiff(i)
  \/ FetchSettles
  \/ CancelCrop

FairSpec ==
  InitLive /\ [][NextLive]_vars /\ WF_vars(LoadSettles) /\ WF_vars(FetchSettles)

(***************************************************************************)
(* SpecSnapshot: an export together with the form.  The form's handlers    *)
(* run while an activation of downloadPDF is suspended on an image load;   *)
(* the activation goes on with the entries and jobNumber of the render it  *)
(* was started from.                                                       *)
(***************************************************************************)
\* an activation of downloadPDF is waiting for an image load
Suspended == \E k \in 1..MaxRuns : run[k].pc \in {"pick", "rotate"}

InitSnapshot ==
  /\ jobNumber = ""
  /\ entries \in (ListsOf(LiveEntries, MaxEntries) \ {<<>>})
  /\ cropIndex = NoIndex
  /\ isGenerating = FALSE
  /\ isUploading = FALSE
  /\ uploadingIndex = NoIndex
  /\ blobs = 0
  /\ revoked = [b \in 1..MaxBlobs |-> 0]
  /\ run = [k \in 1..MaxRuns |-> IdleRun]
  /\ upload = IdleUpload
  /\ request = [c \in 1..MaxRequests |-> IdleRequest]

\* the edits made while an export waits: a title typed, an orientation
\* chosen
SnapshotInputs == {<<"title", "T">>, <<"orientation", "landscape">>}

FormWhileSuspended ==
  /\ Suspended
  /\ \/ \E v \in JobNumbers : SetJobNumber(v)
     \/ \E i \in 1..MaxEntries, fv \in SnapshotInputs :
          EditField(i, fv[1], fv[2])
     \/ AddEntry
     \/ \E i \in 1..MaxEntries : DeleteEntry(i)
     \/ \E i \in 1..MaxEntries : blobs = 0 /\ SelectFile(i)
     \/ ApplyCrop
     \/ CancelCrop

\* one click on Download PDF, then the activation's image loads
ExportOnce ==
  \/ (\A k \in 1..MaxRuns : run[k].pc = "idle") /\ DownloadPDF(1)
  \/ PickLoaded(1)
  \/ RotateLoaded(1)
  \/ LoadError(1)

NextSnapshot ==
  \/ ExportOnce
  \/ FormWhileSuspended

SpecSnapshot == InitSnapshot /\ [][NextSnapshot]_vars

(***************************************************************************)
(* server.js, first handler of POST /upload, from await to await           *)
(***************************************************************************)
clientVars == <<jobNumber, entries, cropIndex, isGenerating, isUploading,
                uploadingIndex, blobs, revoked, run, upload>>

\* a request arrives: `if (!req.file) return res.status(400)...`, else on
\* to the await of metadata()
Receive(c, file, bg) ==
  /\ request[c].pc = "idle"
  /\ \A d \in 1..MaxRequests : request[d].pc # "crashed"
  /\ request' = [request EXCEPT ![c] =
       IF ~file
       THEN Respond([IdleRequest EXCEPT !.bg = bg],
                    [status |-> 400, ok |-> FALSE, via |-> "none",
                     error |-> "No file uploaded", alpha |-> FALSE,
                     handler |-> 1])
       ELSE [IdleRequest EXCEPT !.pc = "metadata", !.file = TRUE, !.bg = bg]]
  /\ UNCHANGED clientVars

\* metadata() has settled (`catch {}` keeps meta = {}); the sharp pipeline
\* is built and awaited
MetadataSettled(c, m) ==
  /\ request[c].pc = "metadata"
  /\ request' = [request EXCEPT ![c] = StartSharp([@ EXCEPT !.meta = m])]
  /\ UNCHANGED clientVars

\* faulty variant: no fallback, a failure of sharp is answered at once
SharpSettledNoFallback(c, ok) ==
  /\ request[c].pc = "sharp"
  /\ request' = [request EXCEPT ![c] =
       IF ok
       THEN Respond(@, [status |-> 200, ok |-> TRUE, via |-> "sharp",
                        error |-> "", alpha |-> WantTransparent(@),
                        handler |-> 1])
       ELSE Respond(@, [status |-> 500, ok |-> FALSE, via |-> "none",
                        error |-> "Image processing failed",
                        alpha |-> FALSE, handler |-> 1])]
  /\ UNCHANGED clientVars

\* toBuffer() has settled: the response via "sharp", or the catch and on to
\* the await of convertViaMagick
SharpSettled(c, ok) ==
  /\ request[c].pc = "sharp"
  /\ request' = [request EXCEPT ![c] =
       IF ok
       THEN Respond(@, [status |-> 200, ok |-> TRUE, via |-> "sharp",
                        error |-> "", alpha |-> WantTransparent(@),
                        handler |-> 1])
       ELSE StartMagick(@)]
  /\ UNCHANGED clientVars

\* convertViaMagick has settled: the response via "magick", or HTTP 500
MagickSettled(c, ok) ==
  /\ request[c].pc = "magick"
  /\ request' = [request EXCEPT ![c] =
       IF ok
       THEN Respond(@, [status |-> 200, ok |-> TRUE, via |-> "magick",
                        error |-> "", alpha |-> WantTransparent(@),
                        handler |-> 1])
       ELSE Respond(@, [status |-> 500, ok |-> FALSE, via |-> "none",
                        error |-> "Image processing failed",
                        alpha |-> FALSE, handler |-> 1])]
  /\ UNCHANGED clientVars

\* spawn(cmd, args) cannot start the process (no `magick` on the PATH):
\* the child emits 'error', convertViaMagick listens only for 'close', the
\* unhandled 'error' event is thrown as an uncaught exception and the
\* server process exits.  Every request in flight is left unanswered.
MagickSpawnFails(c) ==
  /\ request[c].pc = "magick"
  /\ request' = [d \in 1..MaxRequests |->
                   IF request[d].pc \in {"metadata", "sharp", "magick"}
                   THEN [request[d] EXCEPT !.pc = "crashed"]
                   ELSE request[d]]
  /\ UNCHANGED clientVars

NextServer ==
  \E c \in 1..MaxRequests :
    \/ \E file \in BOOLEAN, bg \in BgValues : Receive(c, file, bg)
    \/ \E m \in MetaOutcomes : MetadataSettled(c, m)
    \/ \E ok \in BOOLEAN : SharpSettled(c, ok)
    \/ \E ok \in BOOLEAN : MagickSettled(c, ok)
    \/ MagickSpawnFails(c)

\* the server alone, the component in its initial state
SpecServer == Init /\ [][NextServer]_vars

(***************************************************************************)
(* Properties                                                              *)
(***************************************************************************)
\* positions of the entries downloadPDF keeps (image non-null)
Kept(es) == {i \in 1..Len(es) : es[i].image.kind # "null"}

\* the pages of a document that carry an image
ImagePages(pdf) == SelectSeq(pdf.pages, LAMBDA p : p.img.kind # "null")

\* the images downloadPDF has placed so far, over all activations
PlacedImages ==
  {p.img : p \in UNION {{run[k].pdf.pages[n] : n \in 1..Len(run[k].pdf.pages)} :
                          k \in 1..MaxRuns}} \ {Null}

\* C1: the saved document has exactly one page per entry whose image is
\* non-null, wherever the image-less entries are (position 1 included).
C1_OnePagePerKeptEntry ==
  \A k \in 1..MaxRuns :
    run[k].saved =>
      Len(run[k].pdf.pages) = Cardinality(Kept(run[k].entries))

\* C2: in the saved document the pages that carry images follow the order
\* of their entries, and each has the physical orientation resolved for
\* its own entry.
C2_PagesInOrderWithOwnOrientation ==
  \A k \in 1..MaxRuns :
    run[k].saved =>
      LET ip == ImagePages(run[k].pdf)
      IN  /\ {ip[n].entry : n \in 1..Len(ip)} = Kept(run[k].entries)
          /\ \A m, n \in 1..Len(ip) : m < n => ip[m].entry < ip[n].entry
          /\ \A n \in 1..Len(ip) : ip[n].ori = run[k].orientations[ip[n].entry]

\* the order half of C2 alone, which the code does satisfy
C2_PagesInOrder ==
  \A k \in 1..MaxRuns :
    run[k].saved =>
      LET ip == ImagePages(run[k].pdf)
      IN  /\ {ip[n].entry : n \in 1..Len(ip)} = Kept(run[k].entries)
          /\ \A m, n \in 1..Len(ip) : m < n => ip[m].entry < ip[n].entry

\* C3: every orientation pickOrientation has resolved is the explicit
\* choice when there is one; else "portrait" for a null image; else
\* "landscape" exactly when width / height >= 2.6.
C3_PickOrientation ==
  \A k \in 1..MaxRuns :
    \A i \in 1..Len(run[k].orientations) :
      LET e == run[k].entries[i]
          o == run[k].orientations[i]
      IN  /\ e.orientation \in {"portrait", "landscape"} => o = e.orientation
          /\ e.orientation \in {"auto", "unset"} /\ e.image.kind = "null"
               => o = "portrait"
          /\ e.orientation \in {"auto", "unset"} /\ e.image.kind # "null"
               => /\ o \in {"portrait", "landscape"}
                  /\ o = "landscape" <=> 10 * e.image.w >= 26 * e.image.h

\* an "auto" entry whose image has ratio exactly 2.6 was resolved to landscape
C3_Witness ==
  \E k \in 1..MaxRuns :
    \E i \in 1..Len(run[k].orientations) :
      /\ run[k].entries[i].orientation = "auto"
      /\ run[k].entries[i].image.kind # "null"
      /\ 10 * run[k].entries[i].image.w = 26 * run[k].entries[i].image.h
      /\ run[k].orientations[i] = "landscape"

\* C4: the raster drawRotated returns is at least as wide as high for a
\* landscape page and at most as wide as high for a portrait page.
C4_RotatedMatchesPage ==
  \A img \in PlacedImages :
    /\ img.pageOrientation = "landscape" => img.w >= img.h
    /\ img.pageOrientation = "portrait" => img.w <= img.h

\* drawRotated added its 90 degree correction on top of a user rotation
C4_Witness ==
  \E img \in PlacedImages :
    /\ img.userRot = 90
    /\ img.rot = 180
    /\ img.pageOrientation = "landscape"
    /\ img.w > img.h

\* C5: with scale in [50,100] and both offsets in [-100,100] the placed
\* rectangle lies inside the content rectangle and has the aspect ratio of
\* the rotated image.
C5_PlacedInsideContent ==
  \A img \in PlacedImages :
    LET l == img.lay
    IN  (/\ l.scale \in 50..100
         /\ l.offsetX \in (-100)..100
         /\ l.offsetY \in (-100)..100)
        => /\ RLe(RInt(l.left), l.x)
           /\ RLe(RAdd(l.x, l.drawW), RInt(l.left + l.rawW))
           /\ RLe(RInt(l.top), l.y)
           /\ RLe(RAdd(l.y, l.drawH), RInt(l.top + l.rawH))
           /\ RLt(RInt(0), l.drawH)
           /\ RDiv(l.drawW, l.drawH) = img.ar

\* a height-bound image at half size pushed flush into the bottom right
\* corner of the inset box
C5_Witness ==
  \E img \in PlacedImages :
    LET l == img.lay
    IN  /\ l.scale = 50 /\ l.offsetX = 100 /\ l.offsetY = 100
        /\ RLt(l.drawW, RMul(l.boxW, Rat(1, 2)))
        /\ RAdd(l.x, l.drawW) = RAdd(l.boxLeft, l.boxW)
        /\ RAdd(l.y, l.drawH) = RAdd(l.boxTop, l.boxH)

\* C6: the scale and the offsets the layout computes with are within
\* [50,100] and [-100,100], whatever the entry holds.
C6_LayoutInputsClamped ==
  \A img \in PlacedImages :
    /\ img.lay.scale \in 50..100
    /\ img.lay.offsetX \in (-100)..100
    /\ img.lay.offsetY \in (-100)..100

\* C7: an activation in which an image load failed has returned without
\* pdf.save, has raised the alert, and has processed no entry after the
\* failing one.
C7_DecodeFailureAborts ==
  \A k \in 1..MaxRuns :
    run[k].failedAt # NoIndex =>
      /\ run[k].pc = "done"
      /\ ~run[k].saved
      /\ run[k].alerted
      /\ Len(run[k].orientations) <= Len(run[k].entries)
      /\ \A n \in 1..Len(run[k].pdf.pages) :
           LET p == run[k].pdf.pages[n]
           IN  /\ p.entry <= run[k].failedAt
               /\ p.img.kind # "null" => p.entry < run[k].failedAt

\* the load of the second entry failed in drawRotated after the first
\* entry's page had been staged with its image
C7_Witness ==
  \E k \in 1..MaxRuns :
    /\ run[k].failedAt = 2
    /\ Len(run[k].pdf.pages) = 2
    /\ run[k].pdf.pages[1].img.kind # "null"
    /\ run[k].alerted
    /\ ~isGenerating

\* C9: at most one activation of downloadPDF is in flight, and then
\* isGenerating is true.
C9_SingleExport ==
  /\ Cardinality({k \in 1..MaxRuns : run[k].pc \in {"pick", "rotate"}}) <= 1
  /\ (\E k \in 1..MaxRuns : run[k].pc \in {"pick", "rotate"}) => isGenerating

\* an export is suspended while the list still offers an image to export
C9_Witness ==
  /\ \E k \in 1..MaxRuns : run[k].pc = "rotate"
  /\ isGenerating
  /\ Kept(entries) # {}

\* C10: URL.revokeObjectURL is called at most once per blob URL.
C10_NoDoubleRevoke ==
  \A b \in 1..MaxBlobs : revoked[b] <= 1

\* two blob URLs were created and each was released once; a cropped image
\* is in the list and no entry holds an original any more
C10_Witness ==
  /\ \A b \in 1..blobs : revoked[b] = 1
  /\ blobs >= 2
  /\ \E i \in 1..Len(entries) : entries[i].image.kind # "null"
  /\ \A i \in 1..Len(entries) : entries[i].originalImage.kind = "null"

\* C8: every started export eventually leaves isGenerating false, and
\* every started TIFF upload eventually leaves isUploading false and
\* uploadingIndex null.
C8_FlagsCleared ==
  /\ \A k \in 1..MaxRuns :
       (run[k].pc \in {"pick", "rotate"}) ~> (run[k].pc = "done" /\ ~isGenerating)
  /\ (upload.pc = "fetch")
       ~> (upload.pc = "idle" /\ ~isUploading /\ uploadingIndex = NoIndex)

\* an export and a TIFF upload have both ended in failure and both flags
\* are down
C8_Witness ==
  /\ \E k \in 1..MaxRuns : run[k].pc = "done" /\ run[k].alerted
  /\ upload.pc = "idle" /\ upload.alerted
  /\ ~isGenerating
  /\ ~isUploading
  /\ uploadingIndex = NoIndex

\* C11: every blob URL that was created and not released is still the
\* originalImage of some entry (none is left unreferenced and unreleased).
C11_NoLeakedBlob ==
  \A b \in 1..blobs :
    revoked[b] = 0 =>
      \E i \in 1..Len(entries) : entries[i].originalImage = BlobUrl(b)

\* C12: an entry holds an originalImage only while the crop dialog is open
\* for that entry.
C12_OriginalOnlyWhileCropping ==
  \A i \in 1..Len(entries) :
    entries[i].originalImage.kind # "null" => cropIndex = i

\* C13: a TIFF upload whose fetch is rejected, is answered with a non-OK
\* status, or is answered without a base64 payload leaves the entries and
\* cropIndex as they were and raises an alert.
C13_FailedUploadRollsBack ==
  [][\A o \in UploadOutcomes \ {"base64"} :
       UploadSettled(o) =>
         /\ entries' = entries
         /\ cropIndex' = cropIndex
         /\ upload'.alerted]_vars

\* a TIFF upload for the first entry has failed: alert raised, no original
\* stored, no crop dialog
C13_Witness ==
  /\ upload.pc = "idle"
  /\ upload.alerted
  /\ upload.index = 1
  /\ Len(entries) >= 1
  /\ entries[1].originalImage.kind = "null"
  /\ entries[1].image.kind = "null"
  /\ cropIndex = NoIndex

\* C14: a step that keeps or extends the list changes the image of an
\* existing entry only as applyCrop does (the dialog is open for that entry
\* and closes, its original is cleared), and an added entry has no image.
C14_ImageWrittenOnlyByApplyCrop ==
  [][Len(entries') >= Len(entries) =>
       /\ \A i \in 1..Len(entries) :
            entries'[i].image # entries[i].image =>
              /\ CropOpen
              /\ i = cropIndex
              /\ cropIndex' = NoIndex
              /\ entries'[i].originalImage = Null
       /\ \A i \in (Len(entries) + 1)..Len(entries') :
            entries'[i].image = Null]_vars

\* the first entry was cropped, a second entry was added and a file was
\* selected for it: its image is still null
C14_Witness ==
  /\ Len(entries) = 2
  /\ entries[1].image.kind # "null"
  /\ entries[2].image.kind = "null"
  /\ entries[2].originalImage.kind # "null"
  /\ cropIndex = 2

PagesOf(r) == {r.pdf.pages[n] : n \in 1..Len(r.pdf.pages)}

\* C16: an activation awaits one image load at a time, in array order.
\* While it awaits the decode of pickOrientation for entry i, exactly the
\* entries before i are resolved and no document exists; while it awaits
\* drawRotated for entry i, every kept entry before i has its page with
\* its image placed, the page of entry i is the only one staged without
\* an image, and no later entry has a page.
C16_OneEntryAtATime ==
  \A k \in 1..MaxRuns :
    LET r == run[k]
    IN  /\ r.pc = "pick" =>
             /\ r.pdf = NoPdf
             /\ Len(r.orientations) = r.i - 1
        /\ r.pc = "rotate" =>
             /\ r.i \in Kept(r.entries)
             /\ \A j \in Kept(r.entries) :
                  j < r.i => \E p \in PagesOf(r) :
                               p.entry = j /\ p.img.kind # "null"
             /\ \A p \in PagesOf(r) :
                  /\ p.entry <= r.i
                  /\ (p.entry # NoIndex /\ p.img.kind = "null") => p.entry = r.i

\* the second entry's drawRotated is awaited and the first entry's image
\* is on its page
C16_Witness ==
  \E k \in 1..MaxRuns :
    /\ run[k].pc = "rotate"
    /\ run[k].i = 2
    /\ \E p \in PagesOf(run[k]) : p.entry = 1 /\ p.img.kind # "null"

\* C17: once the document exists every entry has an orientation resolved
\* to "portrait" or "landscape"; the document, every page and every call
\* of drawRotated were given a resolved orientation.
C17_OrientationsResolvedFirst ==
  \A k \in 1..MaxRuns :
    LET r == run[k]
    IN  r.pdf # NoPdf =>
          /\ Len(r.orientations) = Len(r.entries)
          /\ \A i \in 1..Len(r.orientations) :
               r.orientations[i] \in {"portrait", "landscape"}
          /\ r.pdf.orientation \in {"portrait", "landscape"}
          /\ \A p \in PagesOf(r) :
               /\ p.ori \in {"portrait", "landscape"}
               /\ p.img.kind # "null" =>
                    p.img.pageOrientation \in {"portrait", "landscape"}

\* an activation whose two entries are both "auto" has created the
\* document after resolving one to landscape and the other to portrait
C17_Witness ==
  \E k \in 1..MaxRuns :
    /\ run[k].pdf # NoPdf
    /\ Len(run[k].entries) = 2
    /\ \A i \in 1..2 : run[k].entries[i].orientation = "auto"
    /\ run[k].orientations = <<"landscape", "portrait">>

\* C18: on every page with its image placed, the cursor has advanced by
\* 12, 10 and 10 for exactly the fields present, and the top of the content
\* rectangle lies below the last line of every header text drawn.
C18_ContentBelowHeader ==
  \A k \in 1..MaxRuns :
    \A p \in PagesOf(run[k]) :
      p.img.kind # "null" =>
        LET e == run[k].entries[p.entry]
        IN  /\ p.img.lay.top =
                 M + 6 + (IF run[k].jobNumber # "" THEN 12 ELSE 0)
                       + (IF e.title # "" THEN 10 ELSE 0)
                       + (IF e.size # "" THEN 10 ELSE 0) + 6
            /\ \A n \in 1..Len(p.hdr) :
                 RLt(p.hdr[n].last, RInt(p.img.lay.top))

\* the same for pages whose header texts each fit on one line, which the
\* code does satisfy
C18_ContentBelowUnwrappedHeader ==
  \A k \in 1..MaxRuns :
    \A p \in PagesOf(run[k]) :
      (p.img.kind # "null" /\ \A n \in 1..Len(p.hdr) : p.hdr[n].n = 1) =>
        \A n \in 1..Len(p.hdr) : RLt(p.hdr[n].last, RInt(p.img.lay.top))

\* C19: for every placed image, per axis: slack = box size - drawn size
\* is >= 0; the drawn size is the contain-fit size times scale / 100; the
\* origin is box origin + slack / 2 + (offset / 100) * (slack / 2), so
\* offset 100 is flush right / bottom, -100 flush left / top, 0 centred;
\* and with slack 40 and offset 100 the shift from centre is 20.
C19_OffsetPlacement ==
  /\ \A img \in PlacedImages :
       LET l == img.lay
           fit == ContainFit(l, img.ar)
           slackX == RSub(l.boxW, l.drawW)
           slackY == RSub(l.boxH, l.drawH)
           half == Rat(1, 2)
       IN  /\ RLe(RInt(0), slackX) /\ RLe(RInt(0), slackY)
           /\ l.drawW = RMul(fit.w, Rat(l.scale, 100))
           /\ l.drawH = RMul(fit.h, Rat(l.scale, 100))
           /\ l.x = RAdd(RAdd(l.boxLeft, RMul(slackX, half)),
                         RMul(Rat(l.offsetX, 100), RMul(slackX, half)))
           /\ l.y = RAdd(RAdd(l.boxTop, RMul(slackY, half)),
                         RMul(Rat(l.offsetY, 100), RMul(slackY, half)))
           /\ l.offsetX = 100 => RAdd(l.x, l.drawW) = RAdd(l.boxLeft, l.boxW)
           /\ l.offsetX = -100 => l.x = l.boxLeft
           /\ l.offsetX = 0 => l.x = RAdd(l.boxLeft, RMul(slackX, half))
           /\ l.offsetY = 100 => RAdd(l.y, l.drawH) = RAdd(l.boxTop, l.boxH)
           /\ l.offsetY = -100 => l.y = l.boxTop
           /\ l.offsetY = 0 => l.y = RAdd(l.boxTop, RMul(slackY, half))
  /\ RSub(Origin(RInt(0), RInt(100), RInt(60), 100),
          Origin(RInt(0), RInt(100), RInt(60), 0)) = RInt(20)

\* scale 50, offsetX 100, offsetY 0: half the contain-fit size, flush with
\* the right edge of the inset box, vertically centred
C19_Witness ==
  \E img \in PlacedImages :
    LET l == img.lay
        fit == ContainFit(l, img.ar)
    IN  /\ l.scale = 50 /\ l.offsetX = 100 /\ l.offsetY = 0
        /\ l.drawW = RMul(fit.w, Rat(1, 2))
        /\ RLt(RInt(0), RSub(l.boxW, l.drawW))
        /\ RAdd(l.x, l.drawW) = RAdd(l.boxLeft, l.boxW)
        /\ RSub(l.y, l.boxTop) = RSub(RAdd(l.boxTop, l.boxH),
                                      RAdd(l.y, l.drawH))

\* C20: the rotation drawRotated applies is one of 0, 90, 180, 270; it is
\* (userRot + 90) mod 360 when the page is landscape and the user-rotated
\* source is higher than wide, or the page is portrait and the user-rotated
\* source is wider than high, and userRot otherwise.
C20_RotationRule ==
  \A k \in 1..MaxRuns :
    \A p \in PagesOf(run[k]) :
      p.img.kind # "null" =>
        LET src == run[k].entries[p.entry].image
            turned == p.img.userRot \in {90, 270}
            effW == IF turned THEN src.h ELSE src.w
            effH == IF turned THEN src.w ELSE src.h
            corrected ==
              \/ p.img.pageOrientation = "landscape" /\ effW < effH
              \/ p.img.pageOrientation = "portrait" /\ effW > effH
        IN  /\ p.img.rot \in {0, 90, 180, 270}
            /\ corrected => p.img.rot = (p.img.userRot + 90) % 360
            /\ ~corrected => p.img.rot = p.img.userRot

\* a user rotation of 270 was corrected by 90 and wrapped around to 0
C20_Witness ==
  \E img \in PlacedImages :
    /\ img.userRot = 270
    /\ img.rot = 0

\* C21: the raster drawRotated returns has the source's height and width
\* exchanged when the final rotation is 90 or 270 and the source's own
\* width and height otherwise; with userRot 0 and no correction it has
\* the source's size and aspect ratio.
C21_OutputSize ==
  \A k \in 1..MaxRuns :
    \A p \in PagesOf(run[k]) :
      p.img.kind # "null" =>
        LET src == run[k].entries[p.entry].image
        IN  /\ p.img.rot \in {90, 270} =>
                 p.img.w = src.h /\ p.img.h = src.w
            /\ p.img.rot \notin {90, 270} =>
                 p.img.w = src.w /\ p.img.h = src.h
            /\ p.img.ar = Rat(p.img.w, p.img.h)
            /\ (p.img.userRot = 0 /\ p.img.rot = 0) =>
                 /\ p.img.url.w = src.w /\ p.img.url.h = src.h
                 /\ p.img.ar = Rat(src.w, src.h)

\* one image went through unrotated at its own size and another came out
\* of a quarter turn with its sides exchanged
C21_Witness ==
  /\ \E img \in PlacedImages :
       img.userRot = 0 /\ img.rot = 0 /\ img.w = 3 /\ img.h = 1
  /\ \E img \in PlacedImages :
       img.userRot = 0 /\ img.rot = 90 /\ img.w = 1 /\ img.h = 3

C22_WitnessPortrait ==
  /\ \E k \in 1..MaxRuns : \E p \in PagesOf(run[k]) :
       /\ p.img.kind # "null" /\ Len(run[k].entries) = 1
       /\ run[k].entries[1].orientation = "auto"
       /\ run[k].entries[1].image.w = 2 /\ run[k].entries[1].image.h = 3
       /\ p.ori = "portrait" /\ p.img.lay.inset = NORMAL_INSET

\* C23: drawRotated emits a PNG exactly when its source is PNG-encoded and
\* a JPEG at quality 0.9 otherwise, whatever the rotation and the page
\* orientation; the format tag given to pdf.addImage names the encoding
\* drawRotated produced; a PNG source is still a PNG when it is placed.
C23_EncodingChoice ==
  \A k \in 1..MaxRuns :
    \A p \in PagesOf(run[k]) :
      p.img.kind # "null" =>
        LET src == run[k].entries[p.entry].image
        IN  /\ p.img.url.enc = "png" <=> src.enc = "png"
            /\ src.enc # "png" =>
                 p.img.url.enc = "jpeg" /\ p.img.quality = <<9, 10>>
            /\ p.img.format = "PNG" <=> p.img.url.enc = "png"
            /\ p.img.format = "JPEG" <=> p.img.url.enc = "jpeg"
            /\ src.enc = "png" => p.img.format = "PNG"

\* a PNG source placed as PNG after a quarter turn on a landscape page
C23_Witness ==
  \E img \in PlacedImages :
    /\ img.url.enc = "png" /\ img.format = "PNG"
    /\ img.rot = 90 /\ img.pageOrientation = "landscape"

\* a source that is neither PNG nor JPEG has been placed as JPEG
C23_WitnessOther ==
  \E k \in 1..MaxRuns : \E p \in PagesOf(run[k]) :
    /\ p.img.kind # "null" /\ run[k].entries[p.entry].image.enc = "webp"
    /\ p.img.format = "JPEG" /\ p.img.userRot = 180

\* C24: addEntry appends one entry with empty title and size, null image
\* and originalImage, orientation auto, scale 100, offsets 0 and rotation
\* 0 and leaves the others as they are; deleteEntry(i) removes the entry
\* at i and keeps the others in their order; updateEntry(i, field, v)
\* changes that field of entry i and nothing else, and changes nothing
\* when i is outside the list.
C24_ListOpsTouchOnlyTarget ==
  [][ /\ AddEntry =>
           /\ Len(entries') = Len(entries) + 1
           /\ \A j \in 1..Len(entries) : entries'[j] = entries[j]
           /\ entries'[Len(entries')] =
                [title |-> "", size |-> "", image |-> [kind |-> "null"],
                 originalImage |-> [kind |-> "null"], orientation |-> "auto",
                 scale |-> 100, offsetX |-> 0, offsetY |-> 0, rotation |-> 0]
      /\ \A i \in 1..MaxEntries :
           DeleteEntry(i) =>
             /\ Len(entries') = Len(entries) - 1
             /\ \A j \in 1..(i - 1) : entries'[j] = entries[j]
             /\ \A j \in i..Len(entries') : entries'[j] = entries[j + 1]
      /\ \A i \in 1..MaxEntries, fv \in FormInputs :
           EditField(i, fv[1], fv[2]) =>
             /\ Len(entries') = Len(entries)
             /\ \A j \in 1..Len(entries) : j # i => entries'[j] = entries[j]
             /\ entries'[i][fv[1]] = fv[2]
             /\ \A g \in DOMAIN entries[i] :
                  g # fv[1] => entries'[i][g] = entries[i][g]
      /\ (UploadSettled("base64") /\ upload.index > Len(entries)) =>
           entries' = entries
      /\ (UploadSettled("base64") /\ upload.index <= Len(entries)) =>
           /\ Len(entries') = Len(entries)
           /\ \A j \in 1..Len(entries) :
                \A g \in DOMAIN entries[j] :
                  (j # upload.index \/ g # "originalImage") =>
                    entries'[j][g] = entries[j][g]
    ]_vars

\* updateEntry has run with an index outside the list (the entry was
\* deleted while its TIFF upload was in flight) next to an edited entry
C24_Witness ==
  /\ upload.pc = "idle" /\ ~upload.alerted
  /\ upload.index > Len(entries)
  /\ Len(entries) = 1
  /\ entries[1].title = "T" /\ entries[1].orientation = "landscape"

\* C25: every finished image of the form is a JPEG data URL, never a blob
\* URL and never a PNG, so revoking a blob URL leaves it valid and
\* downloadPDF would place it with the tag JPEG at any rotation and on
\* either page.
C25_ImagesAreJpegData ==
  \A i \in 1..Len(entries) :
    entries[i].image.kind # "null" =>
      /\ entries[i].image.kind = "data"
      /\ entries[i].image.enc = "jpeg"
      /\ ~IsBlob(entries[i].image)
      /\ ~IsPngData(entries[i].image)
      /\ \A r \in {0, 90, 180, 270}, o \in {"portrait", "landscape"} :
           FormatTag(DrawRotated(entries[i].image, r, o).url) = "JPEG"

\* a finished image is on the form after the blob URL it was cropped from
\* has been revoked, next to an entry still holding a converted PNG
C25_Witness ==
  /\ \E i \in 1..Len(entries) : entries[i].image.kind = "data"
  /\ \E b \in 1..MaxBlobs : revoked[b] > 0
  /\ \E i \in 1..Len(entries) : IsPngData(entries[i].originalImage)

\* C26: for an entry with orientation "auto", whatever its source size and
\* user rotation, the inset is 0.04 exactly when the orientation resolved
\* for it is landscape: on landscape the rotated image has ratio >= 2.6,
\* on portrait it has ratio <= 1.
C26_AutoInsetMatchesPage ==
  \A k \in 1..MaxRuns :
    \A p \in PagesOf(run[k]) :
      (p.img.kind # "null" /\ run[k].entries[p.entry].orientation = "auto") =>
        /\ p.img.lay.inset = PANORAMA_INSET
             <=> p.img.pageOrientation = "landscape"
        /\ p.img.lay.inset = NORMAL_INSET
             <=> p.img.pageOrientation = "portrait"
        /\ p.img.pageOrientation = "landscape" => RLe(PANORAMA_AR, p.img.ar)
        /\ p.img.pageOrientation = "portrait" => RLe(p.img.ar, RInt(1))

\* an "auto" panorama turned by the user came out on landscape with the
\* panorama inset after the correction
C26_Witness ==
  \E k \in 1..MaxRuns : \E p \in PagesOf(run[k]) :
    /\ p.img.kind # "null" /\ run[k].entries[p.entry].orientation = "auto"
    /\ p.img.userRot = 90 /\ p.img.rot = 180
    /\ p.img.pageOrientation = "landscape"
    /\ p.img.lay.inset = PANORAMA_INSET

\* an "auto" source just below the threshold (5x2) came out on portrait,
\* turned upright, with the normal inset
C26_WitnessBelowThreshold ==
  \E k \in 1..MaxRuns : \E p \in PagesOf(run[k]) :
    /\ p.img.kind # "null" /\ run[k].entries[p.entry].orientation = "auto"
    /\ run[k].entries[p.entry].image.w = 5
    /\ p.img.pageOrientation = "portrait" /\ p.img.w = 2 /\ p.img.h = 5
    /\ p.img.lay.inset = NORMAL_INSET

\* the activation r carried to its end with every image load succeeding
RECURSIVE RunToEnd(_)
RunToEnd(r) ==
  IF r.pc = "pick"
  THEN RunToEnd(PickFrom([r EXCEPT !.orientations =
                            Append(@, PickOrientation(r.entries[r.i]))],
                         r.i + 1))
  ELSE IF r.pc = "rotate"
  THEN RunToEnd(LoopFrom(PlaceImage(r), r.i + 1))
  ELSE r

\* what downloadPDF saves for the entries es and the job number jn
SavedFor(es, jn) ==
  RunToEnd(PickFrom([IdleRun EXCEPT !.entries = es, !.jobNumber = jn], 1))

\* C27: an export works on the entries and the job number it was started
\* with: adds, deletes, field edits and crop applies made while it waits
\* for an image load leave its list and job number as they were, and the
\* pages it saves (number, order, orientation, header, image) and its file
\* name are those of that list and job number.
C27_ExportUsesSnapshot ==
  /\ [][\A k \in 1..MaxRuns :
          run[k].pc \in {"pick", "rotate"} =>
            /\ run'[k].entries = run[k].entries
            /\ run'[k].jobNumber = run[k].jobNumber
            /\ (entries' # entries \/ jobNumber' # jobNumber) =>
                 run' = run]_vars
  /\ [](\A k \in 1..MaxRuns :
          run[k].saved =>
            \E end \in {SavedFor(run[k].entries, run[k].jobNumber)} :
              /\ run[k].pdf = end.pdf
              /\ run[k].fileName = end.fileName)

\* an export has saved a document for a list and a job number that the
\* form no longer shows: an entry was deleted and the job number typed
\* while it waited
C27_Witness ==
  \E k \in 1..MaxRuns :
    /\ run[k].saved
    /\ Len(run[k].pdf.pages) = 2
    /\ Len(entries) < Len(run[k].entries)
    /\ jobNumber = "J" /\ run[k].fileName = "output"

\* C28: when a TIFF conversion succeeds, the entry the file was selected
\* for is still at the captured position: the converted raster is stored
\* as originalImage there and the crop dialog opens for a position inside
\* the list, whatever was added or deleted while the upload was in flight.
C28_UploadReachesItsEntry ==
  [][UploadSettled("base64") =>
       /\ upload.index <= Len(entries)
       /\ cropIndex' \in 1..Len(entries')
       /\ entries'[cropIndex'].originalImage = DataUrl("png", 0, 0)]_vars

\* cropIndex, when set, is a position of the list
C28_CropIndexInRange ==
  cropIndex # NoIndex => cropIndex \in 1..Len(entries)

\* C29: a POST /upload request that is over has exactly one response, a
\* request still in the handler has none; the response comes from the
\* first registered handler and a converted image keeps its alpha channel
\* exactly when bg=transparent was asked for.
C29_ExactlyOneResponse ==
  \A c \in 1..MaxRequests :
    LET q == request[c]
    IN  /\ q.pc \in {"idle", "metadata", "sharp", "magick"} =>
             Len(q.responses) = 0
        /\ q.pc \notin {"idle", "metadata", "sharp", "magick"} =>
             /\ Len(q.responses) = 1
             /\ q.responses[1].handler = 1
             /\ q.responses[1].status = 200 =>
                  (q.responses[1].alpha <=> q.bg = "transparent")

\* the same for the requests whose handler ran to a response
C29_AnsweredOnceByFirstHandler ==
  \A c \in 1..MaxRequests :
    LET q == request[c]
    IN  /\ q.pc \in {"idle", "metadata", "sharp", "magick"} =>
             Len(q.responses) = 0
        /\ q.pc = "done" =>
             /\ Len(q.responses) = 1
             /\ q.responses[1].handler = 1
             /\ q.responses[1].status = 200 =>
                  (q.responses[1].alpha <=> q.bg = "transparent")

\* C30: on both A4 page orientations and for every combination of
\* present and absent job number, title and size, the content rectangle
\* has strictly positive width and height, and so have the inset box and
\* the size handed to addImage; the ratio dividing the box is positive.
C30_PositiveSizes ==
  \A k \in 1..MaxRuns :
    \A p \in PagesOf(run[k]) :
      p.img.kind # "null" =>
        LET l == p.img.lay
        IN  /\ l.rawW = PageW(p.ori) - 16 /\ l.rawW >= 194
            /\ l.rawH = PageH(p.ori) - l.top - 8 /\ l.rawH >= 150
            /\ l.top \in 20..52
            /\ RLt(RInt(0), l.boxW) /\ RLt(RInt(0), l.boxH)
            /\ RLt(RInt(0), p.img.ar)
            /\ RLt(RInt(0), l.drawW) /\ RLt(RInt(0), l.drawH)
            /\ RLe(l.drawW, l.boxW) /\ RLe(l.drawH, l.boxH)

\* the smallest content rectangle: a landscape sheet with job number, title
\* and size all present, the image placed
C30_Witness ==
  \E k \in 1..MaxRuns : \E p \in PagesOf(run[k]) :
    /\ p.img.kind # "null" /\ p.ori = "landscape"
    /\ run[k].jobNumber # "" /\ run[k].entries[p.entry].title # ""
    /\ run[k].entries[p.entry].size # ""
    /\ p.img.lay.rawH = 150 /\ p.img.lay.rawW = 281

\* the largest one: a portrait sheet with no header text at all
C30_WitnessNoHeader ==
  \E k \in 1..MaxRuns : \E p \in PagesOf(run[k]) :
    /\ p.img.kind # "null" /\ p.ori = "portrait"
    /\ run[k].jobNumber = "" /\ run[k].entries[p.entry].title = ""
    /\ run[k].entries[p.entry].size = ""
    /\ p.img.lay.rawH = 269 /\ p.img.lay.rawW = 194

=============================================================================
